---- MODULE Spec2Model ----
(***************************************************************************)
(* State-machine model of shizai-downloader.                               *)
(*   src/npm.js            - the npm package walker (Spec, FairSpec;       *)
(*                           ResolveSpec: one dependency edge over every   *)
(*                           version list; RestartSpec: one process after  *)
(*                           another on the same download directory)       *)
(*   src/unnamed/part_000  - download-docker.js, the image puller          *)
(*                           (DockerSpec)                                  *)
(* Every await of the source is one step of the model; the synchronous     *)
(* code between two awaits belongs to the step that precedes it.           *)
(***************************************************************************)
EXTENDS Integers, Sequences, FiniteSets, TLC

VARIABLES
    \* ---- environment of npm.js
    reg,                 \* the package registry (name -> list of versions)
    disk,                \* downloads/npm-packages: file name -> content
    failures,            \* network failures injected so far
    \* ---- npm.js
    downloadedPackages,  \* npm.js:15, the seen-set
    stack,               \* activation records of downloadTarball
    packageNames,        \* main: names of the batch not yet processed
    cur,                 \* processPackage: its packageName argument
    mainPc,              \* main / processPackage control point
    given,               \* every name handed to main so far (argv and prompts)
    trace,               \* every network request and disk access, in order
    console,             \* every message printed, in order
    call,                \* the last call of the walker by processPackage:
                         \* its identity, the seen-set and Len(trace) then
    \* ---- environment of download-docker.js
    hub,                 \* the image registry
    tarStream,           \* the major version of the tar-stream package installed
    ddisk,               \* downloads/docker-images: path -> archive
    dfailures,           \* failed requests injected so far
    \* ---- download-docker.js
    imageNames,          \* main: image names of the batch not yet processed
    dMainPc,             \* main control point
    dPc,                 \* downloadDockerImage / selectTag control point
    img,                 \* locals of downloadDockerImage
    dtrace,              \* every registry request, in order
    dconsole,            \* every message printed, in order
    dgiven,              \* every image name handed to main so far
    exitCode             \* the argument of process.exit, -1 before it is called

npmVars == <<reg, disk, failures, downloadedPackages, stack, packageNames, cur,
             mainPc, given, trace, console, call>>
dockerVars == <<hub, tarStream, ddisk, dfailures, imageNames, dMainPc, dPc, img, dtrace,
                dconsole, dgiven, exitCode>>
vars == <<npmVars, dockerVars>>

\* ------------------------------------------------------------------ bounds
MaxBatch == 2        \* package / image names given to one run
MaxFailures == 1     \* network requests that fail in one run
MaxVersions == 3     \* versions the registry lists for the package resolved

\* ------------------------------------------------------- generic helpers
Last(s) == s[Len(s)]
Front(s) == SubSeq(s, 1, Len(s) - 1)
Range(s) == {s[i] : i \in 1..Len(s)}
SeqsUpTo(S, n) == UNION {[1..k -> S] : k \in 0..n}

\* ------------------------------------------------ semver (npm.js:11, :96)
\* A version is <<major, minor, patch>>; a range is [op, v].
V100 == <<1, 0, 0>>
V110 == <<1, 1, 0>>
V200 == <<2, 0, 0>>
NoVersion == <<>>

\* SemVer.compare(a, b) = 1
VGt(a, b) ==
    \/ a[1] > b[1]
    \/ a[1] = b[1] /\ a[2] > b[2]
    \/ a[1] = b[1] /\ a[2] = b[2] /\ a[3] > b[3]
VGe(a, b) == a = b \/ VGt(a, b)

\* Range.test(v)
Satisfies(v, r) ==
    CASE r.op = "any"   -> TRUE
      [] r.op = "exact" -> v = r.v
      [] r.op = "gte"   -> VGe(v, r.v)
      [] r.op = "tilde" -> VGe(v, r.v) /\ v[1] = r.v[1] /\ v[2] = r.v[2]
      [] r.op = "caret" ->
            /\ VGe(v, r.v)
            /\ IF r.v[1] > 0 THEN v[1] = r.v[1]
               ELSE IF r.v[2] > 0 THEN v[1] = 0 /\ v[2] = r.v[2]
               ELSE v = r.v

\* Variant of maxSatisfying: the satisfying version listed last.
lastSatisfying(versions, r) ==
    LET ok == {i \in 1..Len(versions) : Satisfies(versions[i], r)}
    IN IF ok = {} THEN NoVersion
       ELSE versions[CHOOSE i \in ok : \A j \in ok : i >= j]

\* semver.maxSatisfying(versions, range): one pass over the list, keeping
\* the greatest satisfying version met so far; null when there is none.
RECURSIVE MaxSatFrom(_, _, _, _)
MaxSatFrom(versions, r, i, best) ==
    IF i > Len(versions) THEN best
    ELSE IF Satisfies(versions[i], r) /\ (best = NoVersion \/ VGt(versions[i], best))
         THEN MaxSatFrom(versions, r, i + 1, versions[i])
         ELSE MaxSatFrom(versions, r, i + 1, best)
maxSatisfying(versions, r) == MaxSatFrom(versions, r, 1, NoVersion)

\* ------------------------------------------------------ the npm registry
\* GET /{name} answers the package document: a list of version entries
\* [v, deps, tarball]; deps is the dependencies object in Object.entries
\* order, tarball is dist.tarball as its path segments.
Ver(v, deps, tarball) == [v |-> v, deps |-> deps, tarball |-> tarball]
Dep(n, op, v) == <<n, [op |-> op, v |-> v]>>
Url(name, file) == <<name, "-", file>>

Names == {"A", "B", "C"}

\* A and B depend on each other (a cycle); C is a leaf with one version.
RegCycle ==
    [A |-> <<Ver(V100, <<Dep("B", "caret", V100)>>, Url("A", "A-1.0.0.tgz"))>>,
     B |-> <<Ver(V110, <<Dep("A", "caret", V100)>>, Url("B", "B-1.1.0.tgz")),
             Ver(V100, <<>>, Url("B", "B-1.0.0.tgz"))>>,
     C |-> <<Ver(V100, <<>>, Url("C", "C-1.0.0.tgz"))>>]

\* A diamond A -> {B, C}, B -> C, and a three-package cycle through C -> A.
RegDiamond ==
    [A |-> <<Ver(V100, <<Dep("B", "tilde", V100), Dep("C", "gte", V100)>>,
                 Url("A", "A-1.0.0.tgz"))>>,
     B |-> <<Ver(V100, <<Dep("C", "any", V100)>>, Url("B", "B-1.0.0.tgz")),
             Ver(V110, <<>>, Url("B", "B-1.1.0.tgz"))>>,
     C |-> <<Ver(V100, <<>>, Url("C", "C-1.0.0.tgz")),
             Ver(V200, <<Dep("A", "exact", V100)>>, Url("C", "C-2.0.0.tgz"))>>]

\* The first of A's two edges asks for B ^2.0.0, which no version of B meets.
RegMissing ==
    [A |-> <<Ver(V100, <<Dep("B", "caret", V200), Dep("C", "caret", V100)>>,
                 Url("A", "A-1.0.0.tgz"))>>,
     B |-> <<Ver(V100, <<>>, Url("B", "B-1.0.0.tgz"))>>,
     C |-> <<Ver(V100, <<Dep("B", "tilde", V110)>>, Url("C", "C-1.0.0.tgz")),
             Ver(V110, <<Dep("B", "exact", V100)>>, Url("C", "C-1.1.0.tgz"))>>]

\* B and C are scoped packages whose tarballs have the same file name.
RegAlias ==
    [A |-> <<Ver(V100, <<Dep("B", "caret", V100), Dep("C", "caret", V100)>>,
                 Url("A", "A-1.0.0.tgz"))>>,
     B |-> <<Ver(V100, <<>>, Url("B", "lib-1.0.0.tgz"))>>,
     C |-> <<Ver(V100, <<>>, Url("C", "lib-1.0.0.tgz"))>>]

Registries == {RegCycle, RegDiamond, RegMissing, RegAlias}

\* metadata.versions / Object.keys(metadata.versions)
VersionsOf(doc) == [i \in 1..Len(doc) |-> doc[i].v]
\* GET /{name}/{version}
VersionDoc(r, name, version) ==
    CHOOSE e \in Range(r[name]) : e.v = version
AllIds(r) == UNION {{<<n, r[n][i].v>> : i \in 1..Len(r[n])} : n \in Names}

\* path.basename(url.parse(tarballUrl).pathname)
Basename(tarballUrl) == Last(tarballUrl)

\* ---------------------------------------------------------------- npm.js
\* An entry of trace: the request or disk access op, made for package name
\* (at version, on file) by the activation of downloadTarball for identity
\* by (<<>>: by processPackage).
Ev(op, name, version, file, by) ==
    [op |-> op, name |-> name, version |-> version, file |-> file, by |-> by]
Msg(kind, name, range) == [kind |-> kind, name |-> name, range |-> range]
NoRange == [op |-> "none", v |-> NoVersion]
Frame(name, version) ==
    [name |-> name, version |-> version, pc |-> "enter", deps |-> <<>>, url |-> <<>>]

Top == Last(stack)
\* pkgSpec, npm.js:40
PkgSpec(f) == <<f.name, f.version>>
SetTop(f) == stack' = [stack EXCEPT ![Len(stack)] = f]

\* The contents a tarball file can have.
Pre == [state |-> "pre", from |-> <<>>]
Full(url) == [state |-> "full", from |-> url]
Partial(url) == [state |-> "partial", from |-> url]
\* Variant of Exists: a file a failed transfer left behind does not count.
ExistsWhole(file) == file \in DOMAIN disk /\ disk[file].state # "partial"
Exists(file) == file \in DOMAIN disk
WriteFile(file, content) ==
    disk' = [f \in DOMAIN disk \cup {file} |-> IF f = file THEN content ELSE disk[f]]

CanFail == failures < MaxFailures

\* downloadTarball returns to its caller: the for loop of the calling
\* activation (npm.js:99) or processPackage (npm.js:135-137).
Return ==
    IF Len(stack) = 1
    THEN /\ stack' = <<>>
         /\ console' = Append(console, Msg("completed", cur, NoRange))
         /\ mainPc' = "for"
    ELSE /\ stack' = [Front(stack) EXCEPT ![Len(stack) - 1] =
                        [@ EXCEPT !.pc = "loop", !.deps = Tail(@)]]
         /\ UNCHANGED <<console, mainPc>>

\* Variant of Throw: only the catch of main (npm.js:184) sees the exception.
ThrowToMain(msgs) ==
    /\ stack' = <<>>
    /\ console' = console \o msgs \o <<Msg("pkgError", cur, NoRange)>>
    /\ mainPc' = "done"
    /\ failures' = failures + 1

\* An exception leaves every activation of downloadTarball (none catches)
\* and reaches the catch of processPackage (npm.js:138-140).
Throw(msgs) ==
    /\ stack' = <<>>
    /\ console' = console \o msgs \o <<Msg("pkgError", cur, NoRange)>>
    /\ mainPc' = "for"
    /\ failures' = failures + 1

\* npm.js:40-43: the identity was seen before.
DT_Seen ==
    /\ mainPc = "walk" /\ Top.pc = "enter"
    /\ PkgSpec(Top) \in downloadedPackages
    /\ Return
    /\ UNCHANGED <<dockerVars, reg, disk, failures, downloadedPackages, packageNames, cur,
                   given, trace, call>>

\* Variant of DT_Enter: the walker goes on although the identity was seen.
DT_EnterUnchecked ==
    /\ mainPc = "walk" /\ Top.pc = "enter"
    /\ downloadedPackages' = downloadedPackages \cup {PkgSpec(Top)}
    /\ console' = Append(console, Msg("processing", Top.name, NoRange))
    /\ SetTop([Top EXCEPT !.pc = "meta"])
    /\ UNCHANGED <<dockerVars, reg, disk, failures, packageNames, cur, mainPc, given,
                   trace, call>>

\* Variant of DT_Enter: the identity is never put into the seen-set.
DT_EnterNoAdd ==
    /\ mainPc = "walk" /\ Top.pc = "enter"
    /\ PkgSpec(Top) \notin downloadedPackages
    /\ console' = Append(console, Msg("processing", Top.name, NoRange))
    /\ SetTop([Top EXCEPT !.pc = "meta"])
    /\ UNCHANGED <<dockerVars, reg, disk, failures, downloadedPackages, packageNames,
                   cur, mainPc, given, trace, call>>

\* npm.js:40-46: a new identity enters the seen-set.
DT_Enter ==
    /\ mainPc = "walk" /\ Top.pc = "enter"
    /\ PkgSpec(Top) \notin downloadedPackages
    /\ downloadedPackages' = downloadedPackages \cup {PkgSpec(Top)}
    /\ console' = Append(console, Msg("processing", Top.name, NoRange))
    /\ SetTop([Top EXCEPT !.pc = "meta"])
    /\ UNCHANGED <<dockerVars, reg, disk, failures, packageNames, cur, mainPc, given, trace,
                   call>>

\* Variant of DT_MetaOk: the tarball is fetched whether or not the file exists.
DT_MetaOkNoCheck ==
    /\ mainPc = "walk" /\ Top.pc = "meta"
    /\ LET metadata == VersionDoc(reg, Top.name, Top.version)
           tarballName == Basename(metadata.tarball)
       IN /\ trace' = trace \o
                <<Ev("ver", Top.name, Top.version, "", PkgSpec(Top)),
                  Ev(IF Exists(tarballName) THEN "existsYes" ELSE "existsNo",
                     Top.name, Top.version, tarballName, PkgSpec(Top))>>
          /\ SetTop([Top EXCEPT !.deps = metadata.deps, !.url = metadata.tarball,
                                !.pc = "fetch"])
          /\ console' = Append(console, Msg("downloading", Top.name, NoRange))
    /\ UNCHANGED <<dockerVars, reg, disk, failures, downloadedPackages, packageNames,
                   cur, mainPc, given, call>>

\* npm.js:49-61: the version document arrives; the destination is checked.
DT_MetaOk ==
    /\ mainPc = "walk" /\ Top.pc = "meta"
    /\ LET metadata == VersionDoc(reg, Top.name, Top.version)
           tarballName == Basename(metadata.tarball)
       IN /\ trace' = trace \o
                <<Ev("ver", Top.name, Top.version, "", PkgSpec(Top)),
                  Ev(IF Exists(tarballName) THEN "existsYes" ELSE "existsNo",
                     Top.name, Top.version, tarballName, PkgSpec(Top))>>
          /\ SetTop([Top EXCEPT !.deps = metadata.deps, !.url = metadata.tarball,
                                !.pc = IF Exists(tarballName) THEN "loop" ELSE "fetch"])
          /\ console' = Append(console,
                 Msg(IF Exists(tarballName) THEN "already" ELSE "downloading",
                     Top.name, NoRange))
    /\ UNCHANGED <<dockerVars, reg, disk, failures, downloadedPackages, packageNames, cur,
                   mainPc, given, call>>

\* npm.js:49 rejects.
DT_MetaFail ==
    /\ mainPc = "walk" /\ Top.pc = "meta" /\ CanFail
    /\ trace' = Append(trace, Ev("ver", Top.name, Top.version, "", PkgSpec(Top)))
    /\ Throw(<<>>)
    /\ UNCHANGED <<dockerVars, reg, disk, downloadedPackages, packageNames, cur, given,
                   call>>

\* npm.js:64: the tarball response arrives.
DT_FetchOk ==
    /\ mainPc = "walk" /\ Top.pc = "fetch"
    /\ trace' = Append(trace, Ev("tar", Top.name, Top.version, Basename(Top.url),
                                PkgSpec(Top)))
    /\ SetTop([Top EXCEPT !.pc = "stream"])
    /\ UNCHANGED <<dockerVars, reg, disk, failures, downloadedPackages, packageNames, cur,
                   mainPc, given, console, call>>

\* npm.js:64 rejects: nothing was written.
DT_FetchFail ==
    /\ mainPc = "walk" /\ Top.pc = "fetch" /\ CanFail
    /\ trace' = Append(trace, Ev("tar", Top.name, Top.version, Basename(Top.url),
                                PkgSpec(Top)))
    /\ Throw(<<>>)
    /\ UNCHANGED <<dockerVars, reg, disk, downloadedPackages, packageNames, cur, given,
                   call>>

\* npm.js:83-86: the body is piped into the destination file.
DT_StreamOk ==
    /\ mainPc = "walk" /\ Top.pc = "stream"
    /\ WriteFile(Basename(Top.url), Full(Top.url))
    /\ trace' = Append(trace, Ev("write", Top.name, Top.version, Basename(Top.url),
                                PkgSpec(Top)))
    /\ console' = Append(console, Msg("downloaded", Top.name, NoRange))
    /\ SetTop([Top EXCEPT !.pc = "loop"])
    /\ UNCHANGED <<dockerVars, reg, failures, downloadedPackages, packageNames, cur, mainPc,
                   given, call>>

\* npm.js:83 rejects mid-stream: the file createWriteStream opened stays.
DT_StreamFail ==
    /\ mainPc = "walk" /\ Top.pc = "stream" /\ CanFail
    /\ WriteFile(Basename(Top.url), Partial(Top.url))
    /\ trace' = Append(trace, Ev("write", Top.name, Top.version, Basename(Top.url),
                                PkgSpec(Top)))
    /\ Throw(<<>>)
    /\ UNCHANGED <<dockerVars, reg, downloadedPackages, packageNames, cur, given,
                   call>>

\* npm.js:92, 104: no dependency is left.
DT_LoopEnd ==
    /\ mainPc = "walk" /\ Top.pc = "loop" /\ Top.deps = <<>>
    /\ Return
    /\ UNCHANGED <<dockerVars, reg, disk, failures, downloadedPackages, packageNames, cur,
                   given, trace, call>>

\* Variant of Resolve: the first listed version that satisfies the range.
ResolveFirst(depName, depVersionRange) ==
    LET versions == VersionsOf(reg[depName])
        ok == {i \in 1..Len(versions) : Satisfies(versions[i], depVersionRange)}
    IN IF ok = {} THEN NoVersion
       ELSE versions[CHOOSE i \in ok : \A j \in ok : i <= j]

\* npm.js:96
Resolve(depName, depVersionRange) ==
    maxSatisfying(VersionsOf(reg[depName]), depVersionRange)

\* npm.js:93-99: the dependency's document arrives and a version satisfies.
DT_DepResolved ==
    /\ mainPc = "walk" /\ Top.pc = "loop" /\ Top.deps # <<>>
    /\ LET depName == Head(Top.deps)[1]
           depVersionRange == Head(Top.deps)[2]
       IN /\ Resolve(depName, depVersionRange) # NoVersion
          /\ trace' = Append(trace, Ev("doc", depName, NoVersion, "", PkgSpec(Top)))
          /\ stack' = Append([stack EXCEPT ![Len(stack)].pc = "call"],
                             Frame(depName, Resolve(depName, depVersionRange)))
    /\ UNCHANGED <<dockerVars, reg, disk, failures, downloadedPackages, packageNames, cur,
                   mainPc, given, console, call>>

\* Variant of DT_DepNotFound: an unsatisfiable range is raised as an error.
DT_DepNotFoundThrows ==
    /\ mainPc = "walk" /\ Top.pc = "loop" /\ Top.deps # <<>>
    /\ LET depName == Head(Top.deps)[1]
           depVersionRange == Head(Top.deps)[2]
       IN /\ Resolve(depName, depVersionRange) = NoVersion
          /\ trace' = Append(trace, Ev("doc", depName, NoVersion, "", PkgSpec(Top)))
          /\ stack' = <<>>
          /\ console' = console \o <<Msg("notFound", depName, depVersionRange),
                                      Msg("pkgError", cur, NoRange)>>
          /\ mainPc' = "for"
    /\ UNCHANGED <<dockerVars, reg, disk, failures, downloadedPackages, packageNames,
                   cur, given, call>>

\* npm.js:93-102: no version satisfies; warn and go on with the next edge.
DT_DepNotFound ==
    /\ mainPc = "walk" /\ Top.pc = "loop" /\ Top.deps # <<>>
    /\ LET depName == Head(Top.deps)[1]
           depVersionRange == Head(Top.deps)[2]
       IN /\ Resolve(depName, depVersionRange) = NoVersion
          /\ trace' = Append(trace, Ev("doc", depName, NoVersion, "", PkgSpec(Top)))
          /\ console' = Append(console, Msg("notFound", depName, depVersionRange))
          /\ SetTop([Top EXCEPT !.deps = Tail(@)])
    /\ UNCHANGED <<dockerVars, reg, disk, failures, downloadedPackages, packageNames, cur,
                   mainPc, given, call>>

\* npm.js:93, 17-25: the dependency's document request rejects.
DT_DepMetaFail ==
    /\ mainPc = "walk" /\ Top.pc = "loop" /\ Top.deps # <<>> /\ CanFail
    /\ LET depName == Head(Top.deps)[1]
       IN /\ trace' = Append(trace, Ev("doc", depName, NoVersion, "", PkgSpec(Top)))
          /\ Throw(<<Msg("metaError", depName, NoRange)>>)
    /\ UNCHANGED <<dockerVars, reg, disk, downloadedPackages, packageNames, cur, given,
                   call>>

\* npm.js:125-135: the document arrives, a version is selected (asked of
\* the user when there are several) and the walker is called.
PP_MetaOk ==
    /\ mainPc = "pp"
    /\ LET versions == VersionsOf(reg[cur])
       IN \E i \in 1..Len(versions) :
            /\ Len(versions) > 1 \/ i = 1
            /\ stack' = <<Frame(cur, versions[i])>>
            /\ call' = [root |-> <<cur, versions[i]>>, seen |-> downloadedPackages,
                        at |-> Len(trace) + 1]
    /\ trace' = Append(trace, Ev("doc", cur, NoVersion, "", <<>>))
    /\ mainPc' = "walk"
    /\ UNCHANGED <<dockerVars, reg, disk, failures, downloadedPackages, packageNames, cur,
                   given, console>>

\* npm.js:125 rejects: fetchPackageMetadata and processPackage both report.
PP_MetaFail ==
    /\ mainPc = "pp" /\ CanFail
    /\ trace' = Append(trace, Ev("doc", cur, NoVersion, "", <<>>))
    /\ Throw(<<Msg("metaError", cur, NoRange)>>)
    /\ UNCHANGED <<dockerVars, reg, disk, downloadedPackages, packageNames, cur, given,
                   call>>

\* npm.js:145-148: names were given on the command line.
Main_Argv ==
    /\ mainPc = "top" /\ packageNames # <<>>
    /\ mainPc' = "for"
    /\ UNCHANGED <<dockerVars, reg, disk, failures, downloadedPackages, stack,
                   packageNames, cur, given, trace, console, call>>

\* npm.js:148-156: the names are given for.
Main_Prompt ==
    /\ mainPc = "top" /\ packageNames = <<>>
    /\ \E names \in SeqsUpTo(Names, MaxBatch - Len(given)) \ {<<>>} :
         /\ packageNames' = names
         /\ given' = given \o names
    /\ mainPc' = "for"
    /\ UNCHANGED <<dockerVars, reg, disk, failures, downloadedPackages, stack, cur, trace,
                   console, call>>

\* npm.js:151-154: the answer is :q.
Main_Quit ==
    /\ mainPc = "top" /\ packageNames = <<>>
    /\ mainPc' = "exited"
    /\ UNCHANGED <<dockerVars, reg, disk, failures, downloadedPackages, stack, packageNames,
                   cur, given, trace, console, call>>

\* npm.js:159-160: the next name of the batch.
Main_For ==
    /\ mainPc = "for" /\ packageNames # <<>>
    /\ cur' = Head(packageNames)
    /\ packageNames' = Tail(packageNames)
    /\ mainPc' = "pp"
    /\ UNCHANGED <<dockerVars, reg, disk, failures, downloadedPackages, stack, given, trace,
                   console, call>>

\* npm.js:164-178: the batch is over and the user wants another.
Main_Continue ==
    /\ mainPc = "for" /\ packageNames = <<>>
    /\ mainPc' = "top"
    /\ UNCHANGED <<dockerVars, reg, disk, failures, downloadedPackages, stack, packageNames,
                   cur, given, trace, console, call>>

\* npm.js:179-182: the batch is over and the user does not.
Main_Break ==
    /\ mainPc = "for" /\ packageNames = <<>>
    /\ mainPc' = "done"
    /\ UNCHANGED <<dockerVars, reg, disk, failures, downloadedPackages, stack, packageNames,
                   cur, given, trace, console, call>>

\* The files that may be in downloads/npm-packages before the run.
\* (here: nothing, or one tarball of package C left by an earlier run)
InitialDisks(r) ==
    {<<>>} \cup {[f \in {Basename(e.tarball)} |-> Pre] : e \in Range(r["C"])}

DockerIdle ==
    /\ hub = <<>> /\ tarStream = "" /\ ddisk = <<>> /\ dfailures = 0
    /\ imageNames = <<>>
    /\ dMainPc = "off" /\ dPc = "off" /\ img = <<>> /\ dtrace = <<>>
    /\ dconsole = <<>> /\ dgiven = <<>> /\ exitCode = -1

Init ==
    /\ reg \in Registries
    /\ disk \in InitialDisks(reg)
    /\ failures = 0
    /\ downloadedPackages = {}
    /\ stack = <<>>
    /\ packageNames \in SeqsUpTo(Names, MaxBatch)
    /\ cur = ""
    /\ mainPc = "top"
    /\ given = packageNames
    /\ trace = <<>>
    /\ console = <<>>
    /\ call = [root |-> <<>>, seen |-> {}, at |-> 0]
    /\ DockerIdle

Next ==
    \/ DT_Seen \/ DT_Enter \/ DT_MetaOk \/ DT_MetaFail \/ DT_FetchOk
    \/ DT_FetchFail \/ DT_StreamOk \/ DT_StreamFail \/ DT_LoopEnd
    \/ DT_DepResolved \/ DT_DepNotFound \/ DT_DepMetaFail
    \/ PP_MetaOk \/ PP_MetaFail
    \/ Main_Argv \/ Main_Prompt \/ Main_Quit \/ Main_For
    \/ Main_Continue \/ Main_Break

Spec == Init /\ [][Next]_vars

\* The steps of downloadTarball. Every one of them is the continuation of an
\* await: once the awaited call returns, the event loop runs it.
Walk ==
    \/ DT_Seen \/ DT_Enter \/ DT_MetaOk \/ DT_MetaFail \/ DT_FetchOk
    \/ DT_FetchFail \/ DT_StreamOk \/ DT_StreamFail \/ DT_LoopEnd
    \/ DT_DepResolved \/ DT_DepNotFound \/ DT_DepMetaFail
FairSpec == Spec /\ WF_vars(Walk)

\* ------------------------------------------------ one process after another
\* node npm.js <names> is started again once the process before it has
\* ended: the module is loaded anew (npm.js:15, an empty seen-set) and
\* downloads/npm-packages is as the process before left it. The start is
\* marked in trace.
NewProcess ==
    /\ mainPc \in {"done", "exited"}
    /\ \E names \in SeqsUpTo(Names, MaxBatch - Len(given)) \ {<<>>} :
         /\ packageNames' = names
         /\ given' = given \o names
    /\ downloadedPackages' = {}
    /\ stack' = <<>>
    /\ cur' = ""
    /\ mainPc' = "top"
    /\ call' = [root |-> <<>>, seen |-> {}, at |-> 0]
    /\ trace' = Append(trace, Ev("exec", "", NoVersion, "", <<>>))
    /\ UNCHANGED <<dockerVars, reg, disk, failures, console>>

\* The first process is given one name and finds the directory empty.
RestartInit ==
    /\ reg \in Registries
    /\ disk = <<>>
    /\ failures = 0
    /\ downloadedPackages = {}
    /\ stack = <<>>
    /\ packageNames \in [1..1 -> Names]
    /\ cur = ""
    /\ mainPc = "top"
    /\ given = packageNames
    /\ trace = <<>>
    /\ console = <<>>
    /\ call = [root |-> <<>>, seen |-> {}, at |-> 0]
    /\ DockerIdle

RestartNext == Next \/ NewProcess

RestartSpec == RestartInit /\ [][RestartNext]_vars

\* ------------------------------------------- one edge, every version list
\* Registries for the resolution of one dependency edge: A@1.0.0 depends
\* on B by any range over the versions below, and the registry lists any
\* choice of at most MaxVersions of them for B, in any order.
V101 == <<1, 0, 1>>
ResolveVersions == {V100, V101, V110, V200}
VersionLists ==
    {l \in SeqsUpTo(ResolveVersions, MaxVersions) :
        l # <<>> /\ \A i, j \in 1..Len(l) : l[i] = l[j] => i = j}
Ranges ==
    {[op |-> "any", v |-> V100]}
    \cup {[op |-> o, v |-> v] : o \in {"exact", "gte", "tilde", "caret"},
                                v \in ResolveVersions}
TgzB(v) ==
    CASE v = V100 -> "B-1.0.0.tgz" [] v = V101 -> "B-1.0.1.tgz"
      [] v = V110 -> "B-1.1.0.tgz" [] v = V200 -> "B-2.0.0.tgz"
RegResolve(l, r) ==
    [A |-> <<Ver(V100, << <<"B", r>> >>, Url("A", "A-1.0.0.tgz"))>>,
     B |-> [i \in 1..Len(l) |-> Ver(l[i], <<>>, Url("B", TgzB(l[i])))],
     C |-> <<Ver(V100, <<>>, Url("C", "C-1.0.0.tgz"))>>]

\* node npm.js A, on an empty download directory
ResolveInit ==
    /\ reg \in {RegResolve(l, r) : l \in VersionLists, r \in Ranges}
    /\ disk = <<>>
    /\ failures = 0
    /\ downloadedPackages = {}
    /\ stack = <<>>
    /\ packageNames = <<"A">>
    /\ cur = ""
    /\ mainPc = "top"
    /\ given = packageNames
    /\ trace = <<>>
    /\ console = <<>>
    /\ call = [root |-> <<>>, seen |-> {}, at |-> 0]
    /\ DockerIdle

\* The run in which every request is answered and the user stops after
\* the batch.
ResolveNext ==
    \/ Main_Argv \/ Main_For \/ PP_MetaOk
    \/ DT_Enter \/ DT_MetaOk \/ DT_FetchOk \/ DT_StreamOk \/ DT_LoopEnd
    \/ DT_DepResolved \/ DT_DepNotFound
    \/ Main_Break

ResolveSpec == ResolveInit /\ [][ResolveNext]_vars

\* --------------------------------------- download-docker.js (part_000)
\* Strings the code takes apart are sequences of tokens: the image name
\* "org/app:v1" is <<"org", "/", "app", ":", "v1">>.
HasToken(s, c) == \E i \in 1..Len(s) : s[i] = c
FirstToken(s, c) == CHOOSE i \in 1..Len(s) : s[i] = c /\ \A j \in 1..i - 1 : s[j] # c
\* String.prototype.split(c)
RECURSIVE Split(_, _)
Split(s, c) ==
    IF ~HasToken(s, c) THEN <<s>>
    ELSE <<SubSeq(s, 1, FirstToken(s, c) - 1)>>
         \o Split(SubSeq(s, FirstToken(s, c) + 1, Len(s)), c)
\* String.prototype.replace(/[cs]/g, '_')
ReplaceAll(s, cs) == [i \in 1..Len(s) |-> IF s[i] \in cs THEN "_" ELSE s[i]]

\* part_000:19-24
RepoOf(imageName) ==
    LET name == Split(imageName, ":")[1]
    IN IF HasToken(name, "/") THEN name ELSE <<"library", "/">> \o name
\* part_000:19; undefined and "" are both <<>>, as both are falsy at line 27
TagOf(imageName) ==
    LET parts == Split(imageName, ":")
    IN IF Len(parts) >= 2 THEN parts[2] ELSE <<>>
\* part_000:32-34
DestPath(name, tag) == ReplaceAll(name, {"/"}) \o <<"_">> \o tag \o <<".tar">>
\* part_000:146
LayerEntryName(digest) ==
    <<"layer-">> \o ReplaceAll(digest, {":", "/"}) \o <<".tar.gz">>

MT_OciIndex == "application/vnd.oci.image.index.v1+json"
MT_List == "application/vnd.docker.distribution.manifest.list.v2+json"
MT_OciManifest == "application/vnd.oci.image.manifest.v1+json"
MT_V2 == "application/vnd.docker.distribution.manifest.v2+json"
MT_V1 == "application/vnd.docker.distribution.manifest.v1+prettyjws"
\* part_000:73
IsIndex(mediaType) == mediaType = MT_List \/ mediaType = MT_OciIndex
\* part_000:115
IsConcrete(mediaType) == mediaType = MT_OciManifest \/ mediaType = MT_V2

\* A manifest response: the body's mediaType ("" when the body has none),
\* the Content-Type header, and the body's manifests / layers / config.
Digest(h) == <<"sha256", ":", h>>
Platform(os, architecture, h) ==
    [platform |-> [os |-> os, architecture |-> architecture], digest |-> Digest(h)]
IndexResp(mt, entries) ==
    [mediaType |-> mt, contentType |-> mt, manifests |-> entries,
     layers |-> <<>>, config |-> <<>>]
ManifestResp(mt, ct, layers, config) ==
    [mediaType |-> mt, contentType |-> ct, manifests |-> <<>>,
     layers |-> layers, config |-> config]
\* part_000:70, 112
MediaTypeOf(resp) == IF resp.mediaType # "" THEN resp.mediaType ELSE resp.contentType

RepoAlpine == <<"library", "/", "alpine">>
RepoEmpty == <<"library", "/", "empty">>
RepoNoTags == <<"library", "/", "notags">>
RepoApp == <<"org", "/", "app">>
RepoOdd == <<"library", "/", "odd">>
\* the tags member of the tags/list answer; it may be missing
Tags(list) == [defined |-> TRUE, list |-> list]
NoTags == [defined |-> FALSE, list |-> <<>>]
AlpineIndex ==
    IndexResp(MT_OciIndex, <<Platform("linux", "amd64", "a1"),
                             Platform("linux", "arm64", "a2")>>)
\* The registry: per repository the answer of tags/list and the manifest
\* behind every reference (tag or digest).
Hub ==
    (RepoAlpine :> [tags |-> Tags(<< <<"3.18">>, <<"3.19">> >>),
        manifests |->
            (<<"3.18">> :> AlpineIndex) @@ (<<"3.19">> :> AlpineIndex)
            @@ (Digest("a1") :> ManifestResp(MT_OciManifest, MT_OciManifest,
                                    <<Digest("l1"), Digest("l2")>>, Digest("c1")))
            @@ (Digest("a2") :> ManifestResp("", MT_V2,
                                    <<Digest("l3")>>, Digest("c2")))])
    @@ (RepoEmpty :> [tags |-> Tags(<<>>), manifests |-> <<>>])
    @@ (RepoNoTags :> [tags |-> NoTags, manifests |-> <<>>])
    @@ (RepoApp :> [tags |-> Tags(<< <<"v1">> >>),
        manifests |->
            (<<"v1">> :> ManifestResp(MT_V2, MT_V2,
                            <<Digest("l4"), Digest("l5")>>, Digest("c3")))])
    @@ (RepoOdd :> [tags |-> Tags(<< <<"v1">>, <<"v2">> >>),
        manifests |->
            (<<"v1">> :> ManifestResp(MT_V1, MT_V1, <<>>, <<>>))
            @@ (<<"v2">> :> IndexResp(MT_List, <<Platform("linux", "amd64", "o1")>>))
            @@ (Digest("o1") :> IndexResp(MT_List,
                                    <<Platform("linux", "amd64", "o1")>>))])

\* The image names a user may give.
ImageInputs ==
    {<<"alpine", ":", "3.18">>, <<"alpine">>, <<"empty">>, <<"notags">>,
     <<"org", "/", "app", ":", "v1">>, <<"odd", ":", "v1">>, <<"odd", ":", "v2">>}

\* An entry of dtrace: request op of pull number pull on repository repo
\* with reference ref, answered res ("fail" when it rejects). The answer
\* to the platform prompt is recorded too: op "select", sel the selected
\* index, ref the digest taken from that entry.
DEv(op, repo, ref, res, sel) ==
    [op |-> op, pull |-> img.pull, repo |-> repo, ref |-> ref, res |-> res,
     sel |-> sel]
DMsg(kind) == [kind |-> kind, image |-> img.imageName]
DCanFail == dfailures < MaxFailures
\* The locals of downloadDockerImage, and of the pack object (part_000:132)
\* its _stream (sink: an entry is open), the entries waiting behind it
\* and _finalizing; unread: the response bodies nobody has read so far.
NoImg ==
    [imageName |-> <<>>, name |-> <<>>, tag |-> <<>>, destPath |-> <<>>,
     manifest |-> <<>>, layers |-> <<>>, pull |-> 0,
     sink |-> FALSE, pending |-> <<>>, finalizing |-> FALSE, unread |-> <<>>]

\* part_000:95-96: the digest of the entry the user selected (0-based)
SelectedDigestFirst(manifests, selectedManifestIndex) == manifests[1].digest
SelectedDigest(manifests, selectedManifestIndex) ==
    manifests[selectedManifestIndex + 1].digest

\* downloadDockerImage returns to the for loop of main (part_000:263-265).
DReturn == dPc' = "off" /\ dMainPc' = "for"

\* part_000:31-39: the tag is known; the destination is checked.
AfterTag(tag, msgs) ==
    LET path == DestPath(img.name, tag)
    IN /\ img' = [img EXCEPT !.tag = tag, !.destPath = path]
       /\ IF path \in DOMAIN ddisk
          THEN /\ dconsole' = dconsole \o msgs \o <<DMsg("already")>>
               /\ DReturn
          ELSE /\ dconsole' = dconsole \o msgs
               /\ dPc' = "token"
               /\ UNCHANGED dMainPc

\* part_000:179-182: the catch of downloadDockerImage.
DCatch ==
    /\ dconsole' = Append(dconsole, DMsg("imgError"))
    /\ dfailures' = dfailures + 1
    /\ DReturn

\* part_000:206-207, 225-226: selectTag ends the process.
DExit(kind) ==
    /\ dconsole' = Append(dconsole, DMsg(kind))
    /\ exitCode' = 1
    /\ dPc' = "off"
    /\ dMainPc' = "exited"

\* part_000:263-264, 13-39: the next image of the batch, given with a tag.
DD_StartTagged ==
    /\ dMainPc = "for" /\ imageNames # <<>> /\ TagOf(Head(imageNames)) # <<>>
    /\ imageNames' = Tail(imageNames)
    /\ LET imageName == Head(imageNames)
           name == RepoOf(imageName)
           path == DestPath(name, TagOf(imageName))
           i == [NoImg EXCEPT !.imageName = imageName, !.name = name,
                              !.tag = TagOf(imageName), !.destPath = path,
                              !.pull = img.pull + 1]
       IN /\ img' = i
          /\ IF path \in DOMAIN ddisk
             THEN /\ dconsole' = dconsole \o
                        <<[kind |-> "start", image |-> imageName],
                          [kind |-> "already", image |-> imageName]>>
                  /\ UNCHANGED <<dPc, dMainPc>>
             ELSE /\ dconsole' = Append(dconsole,
                                        [kind |-> "start", image |-> imageName])
                  /\ dPc' = "token"
                  /\ dMainPc' = "pull"
    /\ UNCHANGED <<npmVars, hub, tarStream, ddisk, dfailures, dtrace, dgiven, exitCode>>

\* part_000:263-264, 13-28: the next image of the batch, given without a tag.
DD_StartUntagged ==
    /\ dMainPc = "for" /\ imageNames # <<>> /\ TagOf(Head(imageNames)) = <<>>
    /\ imageNames' = Tail(imageNames)
    /\ img' = [NoImg EXCEPT !.imageName = Head(imageNames),
                            !.name = RepoOf(Head(imageNames)),
                            !.pull = img.pull + 1]
    /\ dconsole' = Append(dconsole, [kind |-> "start", image |-> Head(imageNames)])
    /\ dPc' = "st_token"
    /\ dMainPc' = "pull"
    /\ UNCHANGED <<npmVars, hub, tarStream, ddisk, dfailures, dtrace, dgiven, exitCode>>

\* part_000:188-194
ST_TokenOk ==
    /\ dPc = "st_token"
    /\ dtrace' = Append(dtrace, DEv("token", img.name, <<>>, "ok", -1))
    /\ dPc' = "st_tags"
    /\ UNCHANGED <<npmVars, hub, tarStream, ddisk, dfailures, imageNames, dMainPc, img,
                   dconsole, dgiven, exitCode>>

\* part_000:188 rejects; 224-226
ST_TokenFail ==
    /\ dPc = "st_token" /\ DCanFail
    /\ dtrace' = Append(dtrace, DEv("token", img.name, <<>>, "fail", -1))
    /\ dfailures' = dfailures + 1
    /\ DExit("tagError")
    /\ UNCHANGED <<npmVars, hub, tarStream, ddisk, imageNames, img, dgiven>>

\* part_000:197-222, 31-39: the tag list arrives and the user picks a tag.
ST_TagsOk ==
    /\ dPc = "st_tags"
    /\ hub[img.name].tags.defined /\ Len(hub[img.name].tags.list) # 0
    /\ dtrace' = Append(dtrace, DEv("tags", img.name, <<>>, "ok", -1))
    /\ \E selectedTag \in Range(hub[img.name].tags.list) : AfterTag(selectedTag, <<>>)
    /\ UNCHANGED <<npmVars, hub, tarStream, ddisk, dfailures, imageNames, dgiven, exitCode>>

\* part_000:197-208: the tag list is absent or empty.
ST_NoTags ==
    /\ dPc = "st_tags"
    /\ ~hub[img.name].tags.defined \/ Len(hub[img.name].tags.list) = 0
    /\ dtrace' = Append(dtrace, DEv("tags", img.name, <<>>, "ok", -1))
    /\ DExit("noTags")
    /\ UNCHANGED <<npmVars, hub, tarStream, ddisk, dfailures, imageNames, img, dgiven>>

\* part_000:197 rejects; 224-226
ST_TagsFail ==
    /\ dPc = "st_tags" /\ DCanFail
    /\ dtrace' = Append(dtrace, DEv("tags", img.name, <<>>, "fail", -1))
    /\ dfailures' = dfailures + 1
    /\ DExit("tagError")
    /\ UNCHANGED <<npmVars, hub, tarStream, ddisk, imageNames, img, dgiven>>

\* part_000:46-52
DD_TokenOk ==
    /\ dPc = "token"
    /\ dtrace' = Append(dtrace, DEv("token", img.name, <<>>, "ok", -1))
    /\ dPc' = "manifest"
    /\ UNCHANGED <<npmVars, hub, tarStream, ddisk, dfailures, imageNames, dMainPc, img,
                   dconsole, dgiven, exitCode>>

\* part_000:46 rejects
DD_TokenFail ==
    /\ dPc = "token" /\ DCanFail
    /\ dtrace' = Append(dtrace, DEv("token", img.name, <<>>, "fail", -1))
    /\ DCatch
    /\ UNCHANGED <<npmVars, hub, tarStream, ddisk, imageNames, img, dgiven, exitCode>>

\* Variant of Dispatch: whatever is not an index is taken as a manifest
\* with layers and a config.
DispatchAny(resp) ==
    IF ~IsIndex(MediaTypeOf(resp))
    THEN /\ img' = [img EXCEPT !.manifest = resp, !.layers = resp.layers]
         /\ ddisk' = (img.destPath :> [entries |-> <<>>, finalized |-> FALSE]) @@ ddisk
         /\ dPc' = "layer"
         /\ UNCHANGED <<dconsole, dMainPc>>
    ELSE /\ img' = [img EXCEPT !.manifest = resp]
         /\ dconsole' = Append(dconsole, DMsg("unsupported"))
         /\ DReturn
         /\ UNCHANGED ddisk

\* part_000:115-135, 175-177: what follows the manifest that is final.
\* A concrete manifest opens the archive; anything else is unsupported.
Dispatch(resp) ==
    IF IsConcrete(MediaTypeOf(resp))
    THEN /\ img' = [img EXCEPT !.manifest = resp, !.layers = resp.layers]
         /\ ddisk' = (img.destPath :> [entries |-> <<>>, finalized |-> FALSE]) @@ ddisk
         /\ dPc' = "layer"
         /\ UNCHANGED <<dconsole, dMainPc>>
    ELSE /\ img' = [img EXCEPT !.manifest = resp]
         /\ dconsole' = Append(dconsole, DMsg("unsupported"))
         /\ DReturn
         /\ UNCHANGED ddisk

\* part_000:55-73, 115-135, 175-177: the manifest behind the tag arrives.
DD_ManifestOk ==
    /\ dPc = "manifest"
    /\ LET resp == hub[img.name].manifests[img.tag]
       IN /\ dtrace' = Append(dtrace, DEv("manifest", img.name, img.tag,
                                          MediaTypeOf(resp), -1))
          /\ IF IsIndex(MediaTypeOf(resp))
             THEN /\ img' = [img EXCEPT !.manifest = resp]
                  /\ dPc' = "select"
                  /\ UNCHANGED <<ddisk, dconsole, dMainPc>>
             ELSE Dispatch(resp)
    /\ UNCHANGED <<npmVars, hub, tarStream, dfailures, imageNames, dgiven, exitCode>>

\* part_000:55 rejects
DD_ManifestFail ==
    /\ dPc = "manifest" /\ DCanFail
    /\ dtrace' = Append(dtrace, DEv("manifest", img.name, img.tag, "fail", -1))
    /\ DCatch
    /\ UNCHANGED <<npmVars, hub, tarStream, ddisk, imageNames, img, dgiven, exitCode>>

\* part_000:75-96: the user selects a platform of the index.
DD_Select ==
    /\ dPc = "select"
    /\ \E selectedManifestIndex \in 0..Len(img.manifest.manifests) - 1 :
         /\ dtrace' = Append(dtrace, DEv("select", img.name,
                  SelectedDigest(img.manifest.manifests, selectedManifestIndex),
                  "ok", selectedManifestIndex))
    /\ dPc' = "manifest2"
    /\ UNCHANGED <<npmVars, hub, tarStream, ddisk, dfailures, imageNames, dMainPc, img,
                   dconsole, dgiven, exitCode>>

\* part_000:99-135, 175-177: the manifest behind the digest arrives.
DD_Manifest2Ok ==
    /\ dPc = "manifest2"
    /\ LET digest == Last(dtrace).ref
           resp == hub[img.name].manifests[digest]
       IN /\ dtrace' = Append(dtrace, DEv("manifest", img.name, digest,
                                          MediaTypeOf(resp), -1))
          /\ Dispatch(resp)
    /\ UNCHANGED <<npmVars, hub, tarStream, dfailures, imageNames, dgiven, exitCode>>

\* part_000:99 rejects
DD_Manifest2Fail ==
    /\ dPc = "manifest2" /\ DCanFail
    /\ dtrace' = Append(dtrace, DEv("manifest", img.name, Last(dtrace).ref,
                                   "fail", -1))
    /\ DCatch
    /\ UNCHANGED <<npmVars, hub, tarStream, ddisk, imageNames, img, dgiven, exitCode>>

\* tar-stream is resolved by require at part_000:11; the repository pins
\* no version. entry(header, buffer, callback) takes a string or a Buffer
\* as the entry's content; part_000:146 and 169 hand it the response
\* stream, which the package never reads: the entry's sink stays open
\* waiting for header.size (none given: 0) bytes to be written to it.
TarStreamVersions == {"v2", "v3"}
\* The header block of an entry and the content that follows it.
Header(entryName) == [name |-> entryName, body |-> <<>>]
\* pack.entry called while a sink is open: version 2 throws "already
\* piping an entry"; version 3 queues the entry behind the open one.
EntryThrows == tarStream = "v2" /\ img.sink
\* pack.entry({name}, stream), part_000:146, 169, on the pack and the
\* file it is piped to (part_000:134-135).
PackEntry(st, entryName) ==
    IF st.i.sink
    THEN [st EXCEPT !.i.pending = Append(@, entryName)]
    ELSE [st EXCEPT !.i.sink = TRUE,
                    !.d[st.i.destPath].entries = Append(@, Header(entryName))]
\* pack.finalize(), part_000:171: the end of the archive is written once
\* no entry is open; until then the call is only noted.
PackFinalize(st) ==
    IF st.i.sink \/ st.i.pending # <<>>
    THEN [st EXCEPT !.i.finalizing = TRUE]
    ELSE [st EXCEPT !.d[st.i.destPath].finalized = TRUE]
\* axios.get(..., {responseType: 'stream'}) resolves with the headers;
\* the body is a stream still to be read (part_000:139-144, 162-167).
Received(i, digest) == [i EXCEPT !.unread = Append(@, digest)]

\* part_000:137-151: the next layer's blob response arrives and
\* pack.entry takes its name.
DD_LayerOk ==
    /\ dPc = "layer" /\ img.layers # <<>> /\ ~EntryThrows
    /\ dtrace' = Append(dtrace, DEv("blob", img.name, Head(img.layers), "ok", -1))
    /\ LET got == [Received(img, Head(img.layers)) EXCEPT !.layers = Tail(@)]
           st == PackEntry([i |-> got, d |-> ddisk],
                           LayerEntryName(Head(img.layers)))
       IN img' = st.i /\ ddisk' = st.d
    /\ UNCHANGED <<npmVars, hub, tarStream, dfailures, imageNames, dMainPc, dPc,
                   dconsole, dgiven, exitCode>>

\* part_000:139-146, 152-158: the blob response arrives, pack.entry
\* throws and the catch of the loop takes it for a failed layer.
DD_LayerEntryThrows ==
    /\ dPc = "layer" /\ img.layers # <<>> /\ EntryThrows
    /\ dtrace' = Append(dtrace, DEv("blob", img.name, Head(img.layers), "ok", -1))
    /\ dconsole' = Append(dconsole, DMsg("layerError"))
    /\ img' = [Received(img, Head(img.layers)) EXCEPT !.layers = Tail(@)]
    /\ UNCHANGED <<npmVars, hub, tarStream, ddisk, dfailures, imageNames,
                   dMainPc, dPc, dgiven, exitCode>>

\* part_000:139 rejects; 152-158
DD_LayerFail ==
    /\ dPc = "layer" /\ img.layers # <<>> /\ DCanFail
    /\ dtrace' = Append(dtrace, DEv("blob", img.name, Head(img.layers), "fail", -1))
    /\ dconsole' = Append(dconsole, DMsg("layerError"))
    /\ dfailures' = dfailures + 1
    /\ img' = [img EXCEPT !.layers = Tail(@)]
    /\ UNCHANGED <<npmVars, hub, tarStream, ddisk, imageNames, dMainPc, dPc,
                   dgiven, exitCode>>

\* part_000:162-174: the config blob response arrives, pack.entry takes
\* the name config.json and pack.finalize is called.
DD_ConfigOk ==
    /\ dPc = "layer" /\ img.layers = <<>> /\ ~EntryThrows
    /\ dtrace' = Append(dtrace, DEv("blob", img.name, img.manifest.config, "ok", -1))
    /\ LET st == PackFinalize(PackEntry(
                    [i |-> Received(img, img.manifest.config), d |-> ddisk],
                    <<"config.json">>))
       IN img' = st.i /\ ddisk' = st.d
    /\ dconsole' = Append(dconsole, DMsg("imgDone"))
    /\ DReturn
    /\ UNCHANGED <<npmVars, hub, tarStream, dfailures, imageNames, dgiven, exitCode>>

\* part_000:162-169, 179-182: the config blob response arrives and
\* pack.entry throws: the catch of downloadDockerImage ends the pull.
DD_ConfigEntryThrows ==
    /\ dPc = "layer" /\ img.layers = <<>> /\ EntryThrows
    /\ dtrace' = Append(dtrace, DEv("blob", img.name, img.manifest.config, "ok", -1))
    /\ img' = Received(img, img.manifest.config)
    /\ dconsole' = Append(dconsole, DMsg("imgError"))
    /\ DReturn
    /\ UNCHANGED <<npmVars, hub, tarStream, ddisk, dfailures, imageNames, dgiven,
                   exitCode>>

\* part_000:162 rejects; 179-182
DD_ConfigFail ==
    /\ dPc = "layer" /\ img.layers = <<>> /\ DCanFail
    /\ dtrace' = Append(dtrace, DEv("blob", img.name, img.manifest.config, "fail", -1))
    /\ DCatch
    /\ UNCHANGED <<npmVars, hub, tarStream, ddisk, imageNames, img, dgiven, exitCode>>

\* part_000:249-252
DMain_Argv ==
    /\ dMainPc = "top" /\ imageNames # <<>>
    /\ dMainPc' = "for"
    /\ UNCHANGED <<npmVars, hub, tarStream, ddisk, dfailures, imageNames, dPc, img, dtrace,
                   dconsole, dgiven, exitCode>>

\* part_000:252-260
DMain_Prompt ==
    /\ dMainPc = "top" /\ imageNames = <<>>
    /\ \E names \in SeqsUpTo(ImageInputs, MaxBatch - Len(dgiven)) \ {<<>>} :
         /\ imageNames' = names
         /\ dgiven' = dgiven \o names
    /\ dMainPc' = "for"
    /\ UNCHANGED <<npmVars, hub, tarStream, ddisk, dfailures, dPc, img, dtrace, dconsole,
                   exitCode>>

\* part_000:255-258
DMain_Quit ==
    /\ dMainPc = "top" /\ imageNames = <<>>
    /\ dMainPc' = "exited"
    /\ exitCode' = 0
    /\ UNCHANGED <<npmVars, hub, tarStream, ddisk, dfailures, imageNames, dPc, img, dtrace,
                   dconsole, dgiven>>

\* part_000:268-282
DMain_Continue ==
    /\ dMainPc = "for" /\ imageNames = <<>>
    /\ dMainPc' = "top"
    /\ UNCHANGED <<npmVars, hub, tarStream, ddisk, dfailures, imageNames, dPc, img, dtrace,
                   dconsole, dgiven, exitCode>>

\* part_000:283-286
DMain_Break ==
    /\ dMainPc = "for" /\ imageNames = <<>>
    /\ dMainPc' = "done"
    /\ UNCHANGED <<npmVars, hub, tarStream, ddisk, dfailures, imageNames, dPc, img, dtrace,
                   dconsole, dgiven, exitCode>>

NpmIdle ==
    /\ reg = <<>> /\ disk = <<>> /\ failures = 0 /\ downloadedPackages = {}
    /\ stack = <<>> /\ packageNames = <<>> /\ cur = "" /\ mainPc = "off"
    /\ given = <<>> /\ trace = <<>> /\ console = <<>>
    /\ call = [root |-> <<>>, seen |-> {}, at |-> 0]

DockerInit ==
    /\ hub = Hub
    /\ tarStream \in TarStreamVersions
    /\ ddisk = <<>>
    /\ dfailures = 0
    /\ imageNames \in SeqsUpTo(ImageInputs, MaxBatch)
    /\ dMainPc = "top"
    /\ dPc = "off"
    /\ img = NoImg
    /\ dtrace = <<>>
    /\ dconsole = <<>>
    /\ dgiven = imageNames
    /\ exitCode = -1
    /\ NpmIdle

DockerNext ==
    \/ DD_StartTagged \/ DD_StartUntagged
    \/ ST_TokenOk \/ ST_TokenFail \/ ST_TagsOk \/ ST_NoTags \/ ST_TagsFail
    \/ DD_TokenOk \/ DD_TokenFail \/ DD_ManifestOk \/ DD_ManifestFail
    \/ DD_Select \/ DD_Manifest2Ok \/ DD_Manifest2Fail
    \/ DD_LayerOk \/ DD_LayerEntryThrows \/ DD_LayerFail
    \/ DD_ConfigOk \/ DD_ConfigEntryThrows \/ DD_ConfigFail
    \/ DMain_Argv \/ DMain_Prompt \/ DMain_Quit \/ DMain_Continue \/ DMain_Break

DockerSpec == DockerInit /\ [][DockerNext]_vars

\* ====================================================== claims on npm.js
\* What the claims speak of, stated without the walker's own code.
Deps(id) == VersionDoc(reg, id[1], id[2]).deps
TarballFile(id) == Basename(VersionDoc(reg, id[1], id[2]).tarball)
SatisfyingSet(name, r) == {v \in Range(VersionsOf(reg[name])) : Satisfies(v, r)}
MaxOf(S) == CHOOSE v \in S : \A w \in S : VGe(v, w)
SatEdges(id) == {d \in Range(Deps(id)) : SatisfyingSet(d[1], d[2]) # {}}
UnsatEdges(id) == {d \in Range(Deps(id)) : SatisfyingSet(d[1], d[2]) = {}}
EdgeTargets(id) == {<<d[1], MaxOf(SatisfyingSet(d[1], d[2]))>> : d \in SatEdges(id)}
RECURSIVE ReachFrom(_)
ReachFrom(S) ==
    LET T == S \cup UNION {EdgeTargets(id) : id \in S}
    IN IF T = S THEN S ELSE ReachFrom(T)

Requests(op, id) ==
    {i \in 1..Len(trace) :
        trace[i].op = op /\ trace[i].name = id[1] /\ trace[i].version = id[2]}
Printed(kind) == {i \in 1..Len(console) : console[i].kind = kind}
\* the walker called last by processPackage has returned normally
WalkCompleted ==
    mainPc = "for" /\ console # <<>> /\ Last(console).kind = "completed"
\* the walker is at its first statement with an identity that was seen
AtSeenEntry ==
    mainPc = "walk" /\ Top.pc = "enter" /\ PkgSpec(Top) \in downloadedPackages

\* C1: the seen-set only grows, and a call of downloadTarball for an
\* identity already in it returns at once: no request, no disk access.
C1_SeenSetIdempotent ==
    [][/\ downloadedPackages \subseteq downloadedPackages'
       /\ AtSeenEntry =>
            /\ Len(stack') = Len(stack) - 1
            /\ trace' = trace /\ disk' = disk
            /\ downloadedPackages' = downloadedPackages]_vars
\* processPackage called the walker for a seen identity and it returned
\* without a single entry added to trace.
C1_Witness ==
    /\ WalkCompleted /\ call.root \in call.seen
    /\ Len(trace) = call.at

\* C2: on a graph with a cycle every walk ends, and no identity has its
\* version document or its tarball requested twice.
FetchedAtMostOnce ==
    \A id \in AllIds(reg) :
        /\ Cardinality(Requests("ver", id)) <= 1
        /\ Cardinality(Requests("tar", id)) <= 1
C2_CycleSafety ==
    /\ (mainPc = "walk") ~> (mainPc = "for")
    /\ []FetchedAtMostOnce
\* A finished walk from A in RegCycle: B's edge back to A was followed.
C2_Witness ==
    /\ reg = RegCycle /\ WalkCompleted /\ call.root = <<"A", V100>>
    /\ {<<"A", V100>>, <<"B", V110>>} \subseteq downloadedPackages
    /\ \E i \in call.at + 1..Len(trace) :
          trace[i].op = "doc" /\ trace[i].name = "A" /\ trace[i].by = <<"B", V110>>

\* C3: a walk that starts with an empty seen-set and ends without error
\* leaves in the seen-set exactly the identities reachable over the
\* maximum satisfying versions, each with one version-document request and
\* at most one tarball request.
C3_SeenIsReachable ==
    (WalkCompleted /\ call.seen = {}) =>
        /\ downloadedPackages = ReachFrom({call.root})
        /\ \A id \in downloadedPackages :
              /\ Cardinality(Requests("ver", id)) = 1
              /\ Cardinality(Requests("tar", id)) <= 1
C3_Witness ==
    /\ WalkCompleted /\ call.seen = {}
    /\ Cardinality(downloadedPackages) >= 3
    /\ \E id \in downloadedPackages : Requests("tar", id) = {}
\* the one-version package without dependencies: one document, one tarball
C3_WitnessLeaf ==
    /\ reg = RegCycle /\ WalkCompleted /\ call.seen = {}
    /\ call.root = <<"C", V100>> /\ downloadedPackages = {<<"C", V100>>}
    /\ Cardinality(Requests("tar", <<"C", V100>>)) = 1

\* C4: when the destination exists at the check of npm.js:61, no tarball
\* request is made for that identity, and a file that exists is never
\* written again.
NoTarballRequestWhenPresent ==
    \A i \in 1..Len(trace) :
        trace[i].op = "existsYes" =>
            \A j \in 1..Len(trace) :
                ~(trace[j].op \in {"tar", "write"} /\ trace[j].by = trace[i].by)
ExistingFilesKept ==
    \A f \in DOMAIN disk : f \in DOMAIN disk' /\ disk'[f] = disk[f]
C4_ExistingFileShortCircuit ==
    /\ []NoTarballRequestWhenPresent
    /\ [][ExistingFilesKept]_vars
C4_Witness ==
    /\ WalkCompleted
    /\ \E i \in call.at + 1..Len(trace) : trace[i].op = "existsYes"

\* C5: with no request failing and exactly one unsatisfiable edge in the
\* graph walked, the walk ends without error, every other edge's target is
\* in the seen-set with its tarball on disk, and one warning was printed.
C5_UnsatisfiableEdgeIsolated ==
    ( /\ mainPc = "for" /\ call.root # <<>> /\ call.seen = {} /\ failures = 0
      /\ Cardinality(UNION {{<<id, d>> : d \in UnsatEdges(id)} :
                               id \in ReachFrom({call.root})}) = 1 )
    => /\ Last(console).kind = "completed"
       /\ Cardinality(Printed("notFound")) = 1
       /\ \A id \in ReachFrom({call.root}) : \A t \in EdgeTargets(id) :
             t \in downloadedPackages /\ TarballFile(t) \in DOMAIN disk
C5_Witness ==
    /\ reg = RegMissing /\ WalkCompleted /\ call.seen = {} /\ failures = 0
    /\ call.root = <<"A", V100>>
    /\ Printed("notFound") # {}
    /\ <<"C", V110>> \in downloadedPackages

\* C6: when a request made for one dependency edge fails, the remaining
\* edges of the same parent are still processed: a parent that started on
\* its edges has asked for the document of every one of them by the time
\* the walk is over.
C6_SiblingIsolation ==
    (mainPc = "for" /\ stack = <<>>) =>
        \A i \in 1..Len(trace) :
            (trace[i].op = "doc" /\ trace[i].by # <<>>) =>
                \A d \in Range(Deps(trace[i].by)) :
                    \E j \in 1..Len(trace) :
                        /\ trace[j].op = "doc" /\ trace[j].by = trace[i].by
                        /\ trace[j].name = d[1]

\* C7: every name handed to main gets its processPackage call, in order,
\* whatever failed before it, and every failure is reported for the
\* package that was being processed.
IsReport(m) == m.kind \in {"completed", "pkgError"}
C7_BatchIsolation ==
    LET rep == SelectSeq(console, IsReport)
    IN /\ Len(rep) <= Len(given)
       /\ \A i \in 1..Len(rep) : rep[i].name = given[i]
       /\ mainPc \in {"done", "exited"} => Len(rep) = Len(given)
       /\ Cardinality(Printed("pkgError")) = failures
C7_Witness ==
    LET rep == SelectSeq(console, IsReport)
    IN /\ mainPc = "done" /\ Len(rep) >= 2
       /\ rep[1].kind = "pkgError" /\ rep[Len(rep)].kind = "completed"


\* C14: every activation of downloadTarball called from another one is
\* for the greatest version, in semver order, of those the registry
\* lists for the dependency and the edge's range admits, in whatever
\* order they are listed; an edge no listed version satisfies is warned
\* about and not followed, and only such an edge is.
C14_VersionResolution ==
    /\ \A i \in 2..Len(stack) :
          LET d == Head(stack[i - 1].deps)
          IN /\ stack[i - 1].pc = "call"
             /\ SatisfyingSet(d[1], d[2]) # {}
             /\ PkgSpec(stack[i]) = <<d[1], MaxOf(SatisfyingSet(d[1], d[2]))>>
    /\ \A j \in Printed("notFound") :
          SatisfyingSet(console[j].name, console[j].range) = {}
\* B's greatest satisfying version stands between two lesser ones in
\* the registry's list, and the walker is called for it.
C14_Witness ==
    /\ Len(stack) = 2 /\ stack[2].name = "B"
    /\ VersionsOf(reg["B"]) = <<V100, V110, V101>>
    /\ Head(stack[1].deps)[2] = [op |-> "caret", v |-> V100]
    /\ stack[2].version = V110
\* no version of B satisfies: the edge is skipped and the walk completes
C14_WitnessNone ==
    /\ mainPc = "done" /\ Printed("notFound") # {} /\ Printed("completed") # {}
    /\ \A i \in 1..Len(trace) : trace[i].name # "B" \/ trace[i].op = "doc"

\* the activation on top was called for an identity that an activation
\* below it is still working on
ReEntrant ==
    /\ mainPc = "walk" /\ Len(stack) >= 2 /\ Top.pc = "enter"
    /\ \E i \in 1..Len(stack) - 1 : PkgSpec(stack[i]) = PkgSpec(Top)
\* C15: an identity is in the seen-set before downloadTarball makes its
\* first request or disk access for it, and a call for an identity
\* whose first call is still in progress returns with no request and
\* no disk access.
C15_InsertBeforeIO ==
    [][/\ \A i \in Len(trace) + 1..Len(trace') :
             trace'[i].by # <<>> => trace'[i].by \in downloadedPackages
       /\ ReEntrant =>
             /\ trace' = trace /\ disk' = disk
             /\ downloadedPackages' = downloadedPackages
             /\ Len(stack') = Len(stack) - 1]_vars
\* A -> B -> A: the second call for A@1.0.0 finds the first in progress,
\* after the first has made its requests
C15_Witness ==
    /\ ReEntrant
    /\ Requests("tar", PkgSpec(Top)) # {}

\* the entries a step adds to trace that are about file
NewEvents(file) == {i \in Len(trace) + 1..Len(trace') : trace'[i].file = file}
PartialFiles == {f \in DOMAIN disk : disk[f].state = "partial"}
\* C17: the file a failed transfer left is never removed or written
\* again, no tarball is requested for it any more, and whoever comes to
\* it later, in this process or the next, finds it present and reports
\* the package as already downloaded.
C17_PartialTarballKept ==
    [][\A f \in PartialFiles :
          /\ f \in DOMAIN disk' /\ disk'[f] = disk[f]
          /\ \A i \in NewEvents(f) : trace'[i].op = "existsYes"
          /\ NewEvents(f) # {} =>
                /\ Len(console') = Len(console) + 1
                /\ Last(console').kind = "already"]_vars
\* a transfer failed, the process ended, and the next process came to
\* the same package, skipped it and completed
C17_Witness ==
    /\ mainPc = "done" /\ console # <<>> /\ Last(console).kind = "completed"
    /\ \E i, j, k \in 1..Len(trace) :
          /\ i < j /\ j < k
          /\ trace[i].op = "write" /\ trace[i].file \in PartialFiles
          /\ trace[j].op = "exec"
          /\ trace[k].op = "existsYes" /\ trace[k].file = trace[i].file
          /\ trace[k].by = trace[i].by
          /\ \A n \in j..Len(trace) : trace[n].op # "tar"

\* C18: when processPackage has just reported a download as completed,
\* the tarball of the identity it selected is on disk and a document
\* was requested for every dependency of that identity, whatever
\* happened to an earlier call for the same identity.
C18_CompletedMeansDownloaded ==
    (mainPc = "for" /\ console # <<>> /\ Last(console).kind = "completed") =>
        /\ Exists(TarballFile(call.root))
        /\ \A d \in Range(Deps(call.root)) :
              \E i \in 1..Len(trace) :
                  /\ trace[i].op = "doc" /\ trace[i].by = call.root
                  /\ trace[i].name = d[1]
\* the same, for identities no earlier call of the process failed on
C18_FirstCallsOnly ==
    (/\ mainPc = "for" /\ console # <<>> /\ Last(console).kind = "completed"
     /\ Printed("pkgError") = {}) =>
        /\ Exists(TarballFile(call.root))
        /\ \A d \in Range(Deps(call.root)) :
              \E i \in 1..Len(trace) :
                  /\ trace[i].op = "doc" /\ trace[i].by = call.root
                  /\ trace[i].name = d[1]

TarballUrl(id) == VersionDoc(reg, id[1], id[2]).tarball
\* the entries of trace made since processPackage last called the walker
ThisWalk == (IF call.at = 0 THEN 1 ELSE call.at)..Len(trace)
\* C20: within one walk no identity is found already downloaded at a
\* destination that a different identity of the walk wrote: each has a
\* file of its own, fetched from its own tarball URL or there before.
C20_NoDestinationAlias ==
    \A i, j \in ThisWalk :
        (/\ j < i /\ trace[i].op = "existsYes"
         /\ trace[j].op = "write" /\ trace[j].file = trace[i].file)
        => trace[j].by = trace[i].by
\* what holds where no two tarball URLs of the registry end alike: a file
\* found present was there before the run or came from the identity's URL
C20_DistinctNamesOnly ==
    (\A id1, id2 \in AllIds(reg) : id1 # id2 => TarballFile(id1) # TarballFile(id2)) =>
        \A i \in 1..Len(trace) :
            trace[i].op = "existsYes" =>
                \/ disk[trace[i].file].state = "pre"
                \/ disk[trace[i].file].from = TarballUrl(trace[i].by)
\* ========================================== claims on download-docker.js
DPrinted(kind) == {i \in 1..Len(dconsole) : dconsole[i].kind = kind}
IsStart(m) == m.kind = "start"
\* the images downloadDockerImage was invoked for, in order
Started == [i \in 1..Len(SelectSeq(dconsole, IsStart)) |->
                SelectSeq(dconsole, IsStart)[i].image]
DEnded == dMainPc \in {"done", "exited"}

\* C8: an image without a tag whose repository lists no tags is skipped
\* with a warning: the process goes on and the rest of the batch is
\* processed.
C8_NoTagsSkipped ==
    (DPrinted("noTags") # {} /\ DEnded) =>
        /\ exitCode # 1
        /\ Started = dgiven

\* C9: a failed token, tag-list, manifest or config-blob request is
\* reported for its image only and every later image of the batch is
\* still handed to downloadDockerImage.
C9_ImageBatchIsolation ==
    (dfailures > 0 /\ DPrinted("noTags") = {} /\ DEnded) =>
        /\ Started = dgiven
        /\ \A i \in 1..Len(dtrace) :
              (dtrace[i].res = "fail" /\ dtrace[i].op \in {"token", "tags", "manifest"})
              => \E j \in DPrinted("imgError") \cup DPrinted("tagError") :
                    dconsole[j].image = Started[dtrace[i].pull]

\* C10: a pull whose first manifest is an index makes exactly one more
\* manifest request, for the digest of the entry selected; a pull whose
\* first manifest is not an index asks for no platform and no second
\* manifest; the layers come from the one concrete manifest received.
ManifestEvents(k) ==
    LET IsM(e) == e.op = "manifest" /\ e.pull = k
    IN SelectSeq(dtrace, IsM)
SelectEvents(k) ==
    LET IsS(e) == e.op = "select" /\ e.pull = k
    IN SelectSeq(dtrace, IsS)
BlobEvents(k) == {i \in 1..Len(dtrace) : dtrace[i].op = "blob" /\ dtrace[i].pull = k}
PullOver(k) == k < img.pull \/ dPc = "off"
C10_IndexResolution ==
    \A k \in 1..img.pull :
        LET m == ManifestEvents(k)
            sel == SelectEvents(k)
        IN /\ Len(m) <= 2 /\ Len(sel) <= 1
           /\ (Len(m) >= 1 /\ ~IsIndex(m[1].res)) => (Len(m) = 1 /\ Len(sel) = 0)
           /\ Len(m) = 2 =>
                /\ IsIndex(m[1].res) /\ Len(sel) = 1
                /\ m[2].ref = Hub[m[1].repo].manifests[m[1].ref]
                                  .manifests[sel[1].sel + 1].digest
           /\ (Len(m) >= 1 /\ IsIndex(m[1].res) /\ PullOver(k)) => Len(m) = 2
           /\ BlobEvents(k) # {} =>
                /\ IsConcrete(m[Len(m)].res)
                /\ Cardinality({i \in 1..Len(m) : IsConcrete(m[i].res)}) = 1
\* alpine:3.18 pulled with entry 1 (linux/arm64) selected: the second
\* manifest request names the arm64 digest and the pull completes.
C10_Witness ==
    /\ dPc = "off" /\ dconsole # <<>> /\ Last(dconsole).kind = "imgDone"
    /\ img.imageName = <<"alpine", ":", "3.18">>
    /\ Len(SelectEvents(img.pull)) = 1 /\ SelectEvents(img.pull)[1].sel = 1
    /\ Len(ManifestEvents(img.pull)) = 2
    /\ ManifestEvents(img.pull)[2].ref = Digest("a2")
\* org/app:v1 answers with a concrete manifest at once
C10_WitnessConcrete ==
    /\ dPc = "off" /\ dconsole # <<>> /\ Last(dconsole).kind = "imgDone"
    /\ img.imageName = <<"org", "/", "app", ":", "v1">>
    /\ Len(ManifestEvents(img.pull)) = 1 /\ Len(SelectEvents(img.pull)) = 0


\* The pull a line of the console belongs to: the number of images
\* started up to that line.
PullOfMsg(j) == Cardinality({i \in 1..j : dconsole[i].kind = "start"})
MsgsOfPull(kind, k) == {j \in DPrinted(kind) : PullOfMsg(j) = k}
\* The manifest of pull k is resolved: the last manifest request was
\* answered and no platform selection is pending.
Resolved(k) ==
    LET m == ManifestEvents(k)
    IN /\ Len(m) >= 1 /\ m[Len(m)].res # "fail"
       /\ IsIndex(m[1].res) => Len(m) = 2
FinalMediaType(k) == Last(ManifestEvents(k)).res

\* C11: blobs are requested only by a pull whose resolved manifest is
\* an OCI image manifest or a Docker v2 manifest. A pull that resolves
\* to anything else (an index once more, too) prints the unsupported
\* format error once, requests no blob and creates no archive, and the
\* image after it in the batch is still started.
C11_UnsupportedManifest ==
    \A k \in 1..img.pull :
        /\ BlobEvents(k) # {} => (Resolved(k) /\ IsConcrete(FinalMediaType(k)))
        /\ (Resolved(k) /\ ~IsConcrete(FinalMediaType(k))) =>
              /\ Cardinality(MsgsOfPull("unsupported", k)) = 1
              /\ BlobEvents(k) = {}
              /\ DestPath(ManifestEvents(k)[1].repo, ManifestEvents(k)[1].ref)
                    \notin DOMAIN ddisk
              /\ PullOver(k)
              /\ (k < Len(dgiven) /\ dMainPc \in {"top", "done", "exited"})
                    => Len(Started) > k
        /\ MsgsOfPull("unsupported", k) # {} =>
              (Resolved(k) /\ ~IsConcrete(FinalMediaType(k)))
\* odd:v2 answers an index, and an index again for the selected digest:
\* unsupported; the image after it is pulled to the end.
C11_Witness ==
    /\ dMainPc = "done" /\ img.pull = 2
    /\ Started[1] = <<"odd", ":", "v2">>
    /\ Len(ManifestEvents(1)) = 2 /\ IsIndex(FinalMediaType(1))
    /\ MsgsOfPull("unsupported", 1) # {}
    /\ MsgsOfPull("imgDone", 2) # {}
\* odd:v1 answers a schema 1 manifest
C11_WitnessV1 ==
    /\ dMainPc = "done" /\ img.pull = 2
    /\ Started[1] = <<"odd", ":", "v1">>
    /\ Len(ManifestEvents(1)) = 1 /\ FinalMediaType(1) = MT_V1
    /\ MsgsOfPull("unsupported", 1) # {}
    /\ MsgsOfPull("imgDone", 2) # {}


\* What a pull asked the registry for and what it left on disk.
ManifestOf(k) ==
    LET m == ManifestEvents(k) IN Hub[m[1].repo].manifests[Last(m).ref]
PathOf(k) == DestPath(ManifestEvents(k)[1].repo, ManifestEvents(k)[1].ref)
BlobSeq(k) ==
    LET IsB(e) == e.op = "blob" /\ e.pull = k
    IN SelectSeq(dtrace, IsB)
\* the blob requests of pull k for layers (all but the one for the config)
LayerSeq(k) ==
    LET IsL(e) == e.op = "blob" /\ e.pull = k /\ e.ref # ManifestOf(k).config
    IN SelectSeq(dtrace, IsL)
IsOk(e) == e.res = "ok"
IsFail(e) == e.res = "fail"
EntryNames(path) == [i \in 1..Len(ddisk[path].entries) |-> ddisk[path].entries[i].name]
\* the entries of the layers fetched, in the order fetched, and config.json
NamesFetched(k) ==
    LET ok == SelectSeq(LayerSeq(k), IsOk)
    IN [i \in 1..Len(ok) + 1 |->
          IF i <= Len(ok) THEN LayerEntryName(ok[i].ref) ELSE <<"config.json">>]
Concrete(k) == Resolved(k) /\ IsConcrete(FinalMediaType(k))

\* C12: a pull in which layer requests failed and the config request did
\* not has reported each failed layer, has requested every layer of the
\* manifest in order and then the config, and has left a finalized
\* archive holding the entries of the layers fetched and config.json.
C12_LayerFailureIsolation ==
    \A k \in 1..img.pull :
        (/\ PullOver(k) /\ Concrete(k)
         /\ SelectSeq(LayerSeq(k), IsFail) # <<>>
         /\ SelectSeq(BlobSeq(k), IsFail) = SelectSeq(LayerSeq(k), IsFail))
        => /\ Cardinality(MsgsOfPull("layerError", k))
                = Len(SelectSeq(LayerSeq(k), IsFail))
           /\ [i \in 1..Len(BlobSeq(k)) |-> BlobSeq(k)[i].ref]
                = ManifestOf(k).layers \o <<ManifestOf(k).config>>
           /\ PathOf(k) \in DOMAIN ddisk
           /\ ddisk[PathOf(k)].finalized
           /\ EntryNames(PathOf(k)) = NamesFetched(k)
\* the part of C12 the code keeps: the failed layer is reported and the
\* layers after it and the config are still requested
C12_LaterLayersAttempted ==
    \A k \in 1..img.pull :
        (/\ PullOver(k) /\ Concrete(k)
         /\ SelectSeq(LayerSeq(k), IsFail) # <<>>
         /\ SelectSeq(BlobSeq(k), IsFail) = SelectSeq(LayerSeq(k), IsFail))
        => /\ Cardinality(MsgsOfPull("layerError", k))
                >= Len(SelectSeq(LayerSeq(k), IsFail))
           /\ [i \in 1..Len(BlobSeq(k)) |-> BlobSeq(k)[i].ref]
                = ManifestOf(k).layers \o <<ManifestOf(k).config>>


\* The bytes of a blob, named by the digest that addresses them.
BytesOf(digest) == digest
\* every request pull k made was answered
AllAnswered(k) == \A i \in 1..Len(dtrace) : dtrace[i].pull = k => dtrace[i].res # "fail"
\* the archive the manifest of pull k describes
ArchiveOf(k) ==
    LET layers == ManifestOf(k).layers
    IN [i \in 1..Len(layers) + 1 |->
          IF i <= Len(layers)
          THEN [name |-> LayerEntryName(layers[i]), body |-> BytesOf(layers[i])]
          ELSE [name |-> <<"config.json">>, body |-> BytesOf(ManifestOf(k).config)]]

\* C13: a pull of a concrete manifest with N layers in which every
\* request was answered leaves a finalized archive of N layer entries,
\* in the order of the manifest, each with the bytes of its layer, and
\* config.json after them as the last entry.
C13_ArchiveContents ==
    \A k \in 1..img.pull :
        (PullOver(k) /\ Concrete(k) /\ AllAnswered(k)) =>
            /\ PathOf(k) \in DOMAIN ddisk
            /\ ddisk[PathOf(k)].finalized
            /\ ddisk[PathOf(k)].entries = ArchiveOf(k)
\* what is in the file instead: the header of the first entry, no bytes
C13_FirstHeaderOnly ==
    \A path \in DOMAIN ddisk :
        /\ ~ddisk[path].finalized
        /\ Len(ddisk[path].entries) <= 1
        /\ \A i \in 1..Len(ddisk[path].entries) : ddisk[path].entries[i].body = <<>>


\* the bytes of blob digest are in the archive at path
InArchive(path, digest) ==
    /\ path \in DOMAIN ddisk
    /\ \E i \in 1..Len(ddisk[path].entries) :
          ddisk[path].entries[i].body = BytesOf(digest)
IsPrefix(s, t) == Len(s) <= Len(t) /\ \A i \in 1..Len(s) : s[i] = t[i]
\* the walker: every activation but the top one waits in its call
EdgesSequential == \A i \in 1..Len(stack) - 1 : stack[i].pc = "call"

\* C16: at most one response body is on its way at any time; a blob is
\* requested only when the body of every blob answered before it in the
\* same pull is in the archive; blobs are requested in the order of
\* the manifest; the walker follows one edge at a time.
C16_SequentialIO ==
    /\ Len(img.unread) <= 1
    /\ \A k \in 1..img.pull :
          /\ \A i \in 1..Len(BlobSeq(k)) - 1 :
                BlobSeq(k)[i].res = "ok" => InArchive(PathOf(k), BlobSeq(k)[i].ref)
          /\ BlobSeq(k) # <<>> =>
                IsPrefix([i \in 1..Len(BlobSeq(k)) |-> BlobSeq(k)[i].ref],
                         ManifestOf(k).layers \o <<ManifestOf(k).config>>)
    /\ EdgesSequential
\* the parts of C16 the code keeps
C16_ManifestOrder ==
    \A k \in 1..img.pull :
        BlobSeq(k) # <<>> =>
            IsPrefix([i \in 1..Len(BlobSeq(k)) |-> BlobSeq(k)[i].ref],
                     ManifestOf(k).layers \o <<ManifestOf(k).config>>)
C16_EdgesSequential == mainPc = "walk" => EdgesSequential


\* the destination of the image a console line is about
PathOfImage(imageName) == DestPath(RepoOf(imageName), TagOf(imageName))
\* C19: whenever downloadDockerImage is not running, every archive it
\* has created is finalized; so is the file behind every pull that
\* ended as already downloaded.
C19_ArchiveAlwaysFinalized ==
    /\ dPc = "off" => \A path \in DOMAIN ddisk : ddisk[path].finalized
    /\ \A j \in DPrinted("already") :
          TagOf(dconsole[j].image) # <<>> =>
              ddisk[PathOfImage(dconsole[j].image)].finalized

====
